---- MODULE Spec2Model ----
(***************************************************************************)
(* The adaptive batched-embedding pipeline of core/services/               *)
(* embedding_service.py: EmbeddingCache, EmbeddingService.                 *)
(* create_embeddings_batch and the retry / split / backoff machine of      *)
(* EmbeddingService._process_batch, for one caller of one service.         *)
(*                                                                         *)
(* Time is counted in milliseconds.  A text is a sequence of characters,   *)
(* the tokenizer is modelled as one token per character, and sha256 is     *)
(* modelled as free of collisions.  An error is the set                    *)
(* of markers its lower-cased message contains.  EmbeddingResult objects   *)
(* live in a heap and are referred to by their index, so that two holders  *)
(* of one object see each other's writes.                                  *)
(*                                                                         *)
(* Spec is that service with its one caller.  SingleSpec, LimitSpec,       *)
(* DocSpec, BulkSpec, CacheSpec, ConcSpec, SharedSpec, ChunkSpec, HashSpec, *)
(* QuerySpec and EnrichSpec run create_embedding, create_embedding against *)
(* rate limit messages, embed_document_with_chunks, lists of hundreds of   *)
(* texts, the cache on its own, several coroutines at the throttle,        *)
(* several coroutines sharing batch size and cache, chunk_text,            *)
(* _hash_text, document_to_search_queries and enrich_metadata of           *)
(* core/citation.py.                                                       *)
(***************************************************************************)
EXTENDS Integers, Sequences, FiniteSets, TLC

VARIABLES
    settings_batch_size,    \* settings.batch_size, the configured size
    enable_cache,           \* the constructor's enable_cache
    effective_batch_size,   \* self._effective_batch_size
    last_request_time,      \* self.last_request_time
    cache,                  \* self.cache.cache: entries in insertion order
    heap,                   \* the EmbeddingResult objects created so far
    now,                    \* the wall clock, ms
    pc,                     \* "idle", or "attempt": at line 220 of the top frame
    texts,                  \* the argument of the running create_embeddings_batch
    results,                \* its local results: <<index, object>> pairs
    uncached_indices,       \* its local uncached_indices
    batches,                \* the groups of its loop at line 156 still to run
    batch_results,          \* its local batch_results
    stack,                  \* the _process_batch frames, innermost first
    calls,                  \* create_embeddings_batch invocations so far
    remote,                 \* remote calls issued so far
    outcome,                \* how the latest create_embeddings_batch ended
    prev_outcome,           \* how the one before it ended
    held,                   \* objects the caller was handed with cached = False
    last_attempt,           \* the latest remote call of the running invocation
    issued,                 \* the two latest remote calls of the service
    cache_max_size,         \* self.cache.max_size
    op,                     \* the latest direct call of an EmbeddingCache method
    tasks,                  \* concurrent callers: where each one is
    ck,                     \* the locals of a running chunk_text
    fp,                     \* two services fingerprinting one text
    doc,                    \* the locals of embed_document_with_chunks
    dq,                     \* the locals of document_to_search_queries
    em,                     \* the locals of enrich_metadata
    bk,                     \* a caller of long lists: the sizes of its groups
    applied                 \* the batch size updates so far, in their order

\* the state of one service and its single caller
service == <<settings_batch_size, enable_cache, effective_batch_size,
             last_request_time, cache, heap, now, pc, texts, results,
             uncached_indices, batches, batch_results, stack, calls, remote,
             outcome, prev_outcome, held, last_attempt, issued>>

\* what a create_embeddings_batch of that caller never touches
others == <<cache_max_size, op, tasks, ck, fp, doc, dq, em, bk,
                applied>>

vars == <<service, others>>

----------------------------------------------------------------------------
(* Bounds of the model. *)

MaxCalls == 2       \* create_embeddings_batch invocations in one run
MaxRemote == 5      \* remote calls issued in one run
MaxLong == 9        \* length of the long input list
max_tokens == 3     \* settings.max_tokens_per_chunk

(* Program constants. *)

MIN_BATCH_SIZE == 8
MAX_BATCH_SIZE == 2048
AIMD_ADDITIVE_INCREASE == 50
max_size == 10000
ttl == 86400000
min_request_interval == 100
max_retries == 5
base_delay == 2000
min_delay == 1000
tpm_delay == 60000

----------------------------------------------------------------------------
(* Python built-ins used by the code. *)

Max(a, b) == IF a >= b THEN a ELSE b

Min(a, b) == IF a <= b THEN a ELSE b

----------------------------------------------------------------------------
(* Texts, preprocessing and fingerprints. *)

SP == " "

model == <<"m">>

\* str.split() followed by " ".join(): a blank is kept when it follows a
\* non-blank and some non-blank comes later.
RECURSIVE KeepFrom(_, _)
KeepFrom(s, i) ==
    IF i > Len(s) THEN <<>>
    ELSE LET keep == \/ s[i] # SP
                     \/ /\ i > 1
                        /\ s[i - 1] # SP
                        /\ \E j \in (i + 1)..Len(s) : s[j] # SP
         IN  (IF keep THEN <<s[i]>> ELSE <<>>) \o KeepFrom(s, i + 1)

\* the tokenizer: one token id per character
Vocabulary == <<SP, "a", "b", "c", "d", ":", "m">>

TokenId(ch) == CHOOSE k \in 1..Len(Vocabulary) : Vocabulary[k] = ch

encode(text) == [i \in 1..Len(text) |-> TokenId(text[i])]

decode(tokens) == [i \in 1..Len(tokens) |-> Vocabulary[tokens[i]]]

_preprocess_text(text) ==
    IF text = <<>> THEN <<>>
    ELSE LET joined == KeepFrom(text, 1)
             tokens == encode(joined)
         IN  IF Len(tokens) > max_tokens
             THEN decode(SubSeq(tokens, 1, max_tokens))
             ELSE joined

\* hashlib.sha256(content.encode()).hexdigest(), taken to be free of
\* collisions: the digest of a string is the code of the string
sha256(content) == encode(content)

_hash_text_modelless(text, m) == sha256(text)

\* lines 191-192, for a service whose self.model is m
_hash_text_under(text, m) == sha256(text \o <<":">> \o m)

_hash_text(text) == _hash_text_under(text, model)

RECURSIVE _create_batches(_, _)
_create_batches(ts, batch_size) ==
    IF ts = <<>> THEN <<>>
    ELSE <<SubSeq(ts, 1, Min(batch_size, Len(ts)))>>
         \o _create_batches(SubSeq(ts, Min(batch_size, Len(ts)) + 1, Len(ts)),
                            batch_size)

----------------------------------------------------------------------------
(* EmbeddingCache.  An entry is [key, result, ts]; the sequence keeps the   *)
(* dict's insertion order, which is the order min() scans the keys in.      *)

IndexOf(c, text_hash) ==
    IF \E i \in 1..Len(c) : c[i].key = text_hash
    THEN CHOOSE i \in 1..Len(c) : c[i].key = text_hash
    ELSE 0

Remove(c, i) == SubSeq(c, 1, i - 1) \o SubSeq(c, i + 1, Len(c))

\* the last entry of the dict
OldestIndex_last(c) == Len(c)

OldestIndex_newest(c) ==
    CHOOSE i \in 1..Len(c) : \A j \in 1..Len(c) : c[j].ts <= c[i].ts

OldestIndex(c) ==
    CHOOSE i \in 1..Len(c) :
        \A j \in 1..Len(c) :
            /\ c[j].ts >= c[i].ts
            /\ (c[j].ts = c[i].ts => j >= i)

EmbeddingCache_get_refreshing(c, h, text_hash, t) ==
    LET i == IndexOf(c, text_hash)
    IN  IF i = 0
        THEN [hit |-> FALSE, result |-> 0, cache |-> c, heap |-> h]
        ELSE IF t - c[i].ts < ttl
             THEN [hit |-> TRUE, result |-> c[i].result,
                   cache |-> [c EXCEPT ![i].ts = t],
                   heap |-> [h EXCEPT ![c[i].result].cached = TRUE]]
             ELSE [hit |-> FALSE, result |-> 0, cache |-> Remove(c, i),
                   heap |-> h]

EmbeddingCache_get_unmarked(c, h, text_hash, t) ==
    LET i == IndexOf(c, text_hash)
    IN  IF i = 0
        THEN [hit |-> FALSE, result |-> 0, cache |-> c, heap |-> h]
        ELSE IF t - c[i].ts < ttl
             THEN [hit |-> TRUE, result |-> c[i].result, cache |-> c,
                   heap |-> h]
             ELSE [hit |-> FALSE, result |-> 0, cache |-> Remove(c, i),
                   heap |-> h]

\* get: the stored object itself is marked and handed out.
EmbeddingCache_get(c, h, text_hash, t) ==
    LET i == IndexOf(c, text_hash)
    IN  IF i = 0
        THEN [hit |-> FALSE, result |-> 0, cache |-> c, heap |-> h]
        ELSE IF t - c[i].ts < ttl
             THEN [hit |-> TRUE, result |-> c[i].result, cache |-> c,
                   heap |-> [h EXCEPT ![c[i].result].cached = TRUE]]
             ELSE [hit |-> FALSE, result |-> 0, cache |-> Remove(c, i),
                   heap |-> h]

EmbeddingCache_set_unbounded(c, limit, text_hash, result, t) ==
    LET i == IndexOf(c, text_hash)
        entry == [key |-> text_hash, result |-> result, ts |-> t]
    IN  IF i = 0 THEN Append(c, entry) ELSE [c EXCEPT ![i] = entry]

EmbeddingCache_set(c, limit, text_hash, result, t) ==
    LET c1 == IF Len(c) >= limit THEN Remove(c, OldestIndex(c)) ELSE c
        i == IndexOf(c1, text_hash)
        entry == [key |-> text_hash, result |-> result, ts |-> t]
    IN  IF i = 0 THEN Append(c1, entry) ELSE [c1 EXCEPT ![i] = entry]

----------------------------------------------------------------------------
(* Errors of the remote endpoint, as the markers str(e).lower() contains.  *)

NoError == [name |-> "none", marks |-> {}, again_ms |-> -1, again_s |-> -1]

Err429 ==
    [name |-> "429 rate limit", marks |-> {"429", "rate limit"},
     again_ms |-> -1, again_s |-> -1]

ErrTooLarge ==
    [name |-> "request too large", marks |-> {"request too large"},
     again_ms |-> -1, again_s |-> -1]

ErrAuth ==
    [name |-> "invalid api key", marks |-> {}, again_ms |-> -1, again_s |-> -1]

Errors == {Err429, ErrTooLarge, ErrAuth}

_should_reduce_batch_any(e) == TRUE

_should_reduce_batch(e) ==
    \/ "429" \in e.marks \/ "rate limit" \in e.marks
    \/ "request too large" \in e.marks \/ "maximum context" \in e.marks
    \/ "context_length" \in e.marks
    \/ "413" \in e.marks

IsRateLimit(e) == "429" \in e.marks \/ "rate limit" \in e.marks

ShouldSplit_large(e, n, size) ==
    /\ _should_reduce_batch(e)
    /\ n > MIN_BATCH_SIZE
    /\ size > MIN_BATCH_SIZE

ShouldSplit(e, n, size) ==
    _should_reduce_batch(e) /\ n > 1 /\ size > MIN_BATCH_SIZE

CanBackoff_short(e, attempt) ==
    /\ "429" \in e.marks \/ "rate limit" \in e.marks
    /\ attempt < max_retries - 2

CanBackoff(e, attempt) ==
    _should_reduce_batch(e) /\ IsRateLimit(e) /\ attempt < max_retries - 1

BackoffDelay_none(e) == 0

\* a delay that puts tokens per minute before the stated time
BackoffDelay_tpm_first(e) ==
    IF "tokens per min" \in e.marks \/ "tpm" \in e.marks
    THEN tpm_delay
    ELSE Max(base_delay, min_delay)

BackoffDelay(e) ==
    LET delay ==
            IF "try again in" \in e.marks
            THEN IF e.again_ms >= 0 THEN e.again_ms
                 ELSE IF e.again_s >= 0 THEN e.again_s * 1000
                 ELSE base_delay
            ELSE IF "tokens per min" \in e.marks \/ "tpm" \in e.marks
                 THEN tpm_delay
                 ELSE base_delay
    IN  Max(delay, min_delay)

----------------------------------------------------------------------------
(* The batch size controller. *)

InitialBatchSize_unclamped(b) == b

OnSuccess_unclamped(size) == size + AIMD_ADDITIVE_INCREASE

\* a success whose update is lost
OnSuccess_lost(size) == size

InitialBatchSize(b) == Max(MIN_BATCH_SIZE, Min(MAX_BATCH_SIZE, b))

OnSuccess(size) ==
    IF size < MAX_BATCH_SIZE
    THEN Min(MAX_BATCH_SIZE, size + AIMD_ADDITIVE_INCREASE)
    ELSE size

new_size_kept(size) == Max(MIN_BATCH_SIZE, size)

\* int(size * AIMD_MULTIPLICATIVE_DECREASE) with the factor 0.5
new_size(size) == Max(MIN_BATCH_SIZE, size \div 2)

----------------------------------------------------------------------------
(* The inputs of a run. *)

StartTime == 1000   \* the clock at construction

TextA == <<"a">>

TextA2 == <<SP, "a", SP>>

TextB == <<"b", SP, SP, "c">>

TextB2 == <<"b", SP, "c", "d">>

TextC == <<"c">>

TextE == <<>>

LongInput ==
    [i \in 1..MaxLong |->
        IF i % 3 = 1 THEN TextC ELSE IF i % 3 = 2 THEN TextB ELSE TextE]

Inputs ==
    {<<>>, <<TextA>>, <<TextA, TextB>>, <<TextB2, TextA2>>, LongInput}

BatchSizes == {3, 16, 3000}

IdleGaps == {min_request_interval \div 2, ttl}

----------------------------------------------------------------------------
(* create_embeddings_batch, lines 125-170. *)

\* lines 138-148: the cache lookups, in input order
RECURSIVE Scan(_, _, _, _)
Scan(processed, i, st, t) ==
    IF i > Len(processed) THEN st
    ELSE LET text == processed[i]
             text_hash == _hash_text(text)
             g == IF enable_cache
                  THEN EmbeddingCache_get(st.cache, st.heap, text_hash, t)
                  ELSE [hit |-> FALSE, result |-> 0, cache |-> st.cache,
                        heap |-> st.heap]
             st1 == IF g.hit
                    THEN [st EXCEPT !.cache = g.cache, !.heap = g.heap,
                                    !.results = Append(@, <<i, g.result>>)]
                    ELSE [st EXCEPT !.cache = g.cache, !.heap = g.heap,
                                    !.uncached_texts = Append(@, text),
                                    !.uncached_indices = Append(@, i)]
         IN  Scan(processed, i + 1, st1, t)

\* lines 161-166: pair each fresh result with its index and cache it
RECURSIVE Store(_, _, _, _, _, _)
Store(i, brs, uidx, st, h, t) ==
    IF i > Len(brs) THEN st
    ELSE LET result == brs[i]
             st1 == [results |-> Append(st.results, <<uidx[i], result>>),
                     cache |-> IF enable_cache
                               THEN EmbeddingCache_set(st.cache, max_size,
                                        h[result].text_hash, result, t)
                               ELSE st.cache]
         IN  Store(i + 1, brs, uidx, st1, h, t)

SortByIndex_unsorted(rs) == rs

\* line 169
SortByIndex(rs) == SortSeq(rs, LAMBDA a, b : a[1] < b[1])

\* line 170
Seconds(rs) == [i \in 1..Len(rs) |-> rs[i][2]]

\* a call of _process_batch(ts) entered at time t: lines 215-219
NewFrame(ts, t) ==
    [texts |-> ts, start_time |-> t, attempt |-> 0, pend |-> <<>>,
     all_results |-> <<>>]

NoAttempt ==
    [kind |-> "none", err |-> NoError, n |-> 0, size_before |-> 0,
     time |-> 0, attempt |-> 0, start_time |-> 0, then |-> "none"]

NoOutcome ==
    [kind |-> "none", texts |-> <<>>, refs |-> <<>>, cached |-> <<>>,
     embedding |-> <<>>, err |-> NoError, remote |-> 0, start |-> 0,
     end |-> 0]

\* the locals of create_embeddings_batch once it has ended
Ended(c, h, o, hd) ==
    [cache |-> c, heap |-> h, outcome |-> o, held |-> hd, pc |-> "idle",
     stack |-> <<>>, batches |-> <<>>, results |-> <<>>,
     uncached_indices |-> <<>>, batch_results |-> <<>>]

\* lines 160-170 and the return to the caller at time t, rem remote calls
\* having been issued by the service
Completed(run, rs, brs, uidx, c, h, t, rem, hd) ==
    LET st == Store(1, brs, uidx, [results |-> rs, cache |-> c], h, t)
        refs == Seconds(SortByIndex(st.results))
        o == [kind |-> "returned", texts |-> run.texts, refs |-> refs,
              cached |-> [i \in 1..Len(refs) |-> h[refs[i]].cached],
              embedding |-> [i \in 1..Len(refs) |-> h[refs[i]].embedding],
              err |-> NoError, remote |-> rem - run.remote,
              start |-> run.start, end |-> t]
        fresh == {refs[i] : i \in {j \in 1..Len(refs) : ~h[refs[j]].cached}}
    IN  Ended(st.cache, h, o, hd \cup fresh)

\* lines 127-158, up to the first group's first attempt
Begin(ts, t) ==
    LET processed_texts == [i \in 1..Len(ts) |-> _preprocess_text(ts[i])]
        st == Scan(processed_texts, 1,
                   [cache |-> cache, heap |-> heap, results |-> <<>>,
                    uncached_texts |-> <<>>, uncached_indices |-> <<>>], t)
        running == [NoOutcome EXCEPT !.kind = "running", !.texts = ts,
                                     !.remote = remote, !.start = t]
        bs == _create_batches(st.uncached_texts, effective_batch_size)
    IN  IF ts = <<>>
        THEN Ended(cache, heap,
                   [running EXCEPT !.kind = "returned", !.remote = 0,
                                   !.end = t],
                   held)
        ELSE IF st.uncached_texts = <<>>
        THEN Completed(running, st.results, <<>>, <<>>, st.cache, st.heap, t,
                       remote, held)
        ELSE [cache |-> st.cache, heap |-> st.heap, outcome |-> running,
              held |-> held, pc |-> "attempt",
              stack |-> <<NewFrame(Head(bs), t)>>, batches |-> Tail(bs),
              results |-> st.results,
              uncached_indices |-> st.uncached_indices,
              batch_results |-> <<>>]

Locals(r) ==
    /\ cache' = r.cache
    /\ heap' = r.heap
    /\ outcome' = r.outcome
    /\ held' = r.held
    /\ pc' = r.pc
    /\ stack' = r.stack
    /\ batches' = r.batches
    /\ results' = r.results
    /\ uncached_indices' = r.uncached_indices
    /\ batch_results' = r.batch_results

\* the caller, idle for gap, calls create_embeddings_batch(ts)
Invoke(ts, gap) ==
    /\ pc = "idle"
    /\ calls' = calls + 1
    /\ now' = now + gap
    /\ texts' = ts
    /\ prev_outcome' = outcome
    /\ last_attempt' = NoAttempt
    /\ Locals(Begin(ts, now + gap))
    /\ UNCHANGED <<settings_batch_size, enable_cache, effective_batch_size,
                   last_request_time, remote, issued>>

create_embeddings_batch(ts, gap) ==
    /\ calls < MaxCalls
    /\ Invoke(ts, gap)
    /\ UNCHANGED others

----------------------------------------------------------------------------
(* _process_batch, lines 213-308. *)

Top == Head(stack)

\* lines 221-224: when the call is issued, the throttle's sleep included
Throttle(current_time) ==
    LET time_since_last == current_time - last_request_time
    IN  IF time_since_last < min_request_interval
        THEN current_time + (min_request_interval - time_since_last)
        ELSE current_time

\* line 219: the top frame starts its next attempt
Attempting ==
    /\ pc = "attempt"
    /\ Top.attempt < max_retries
    /\ remote < MaxRemote

\* what every remote call records, whatever its outcome
Record(kind, e, then) ==
    /\ remote' = remote + 1
    /\ issued' = [before |-> issued.latest,
                  latest |-> [kind |-> kind, time |-> Throttle(now)]]
    /\ last_attempt' = [kind |-> kind, err |-> e, n |-> Len(Top.texts),
                        size_before |-> effective_batch_size,
                        time |-> Throttle(now), attempt |-> Top.attempt,
                        start_time |-> Top.start_time, then |-> then]

\* lines 235-248: one EmbeddingResult per text of the group, in order
NewResults(ts, call) ==
    [i \in 1..Len(ts) |->
        [embedding |-> <<ts[i], call>>, text_hash |-> _hash_text(ts[i]),
         cached |-> FALSE]]

\* a finished frame hands its results to the frame that called it
RECURSIVE Return(_, _, _)
Return(stk, res, t) ==
    IF stk = <<>> THEN [done |-> TRUE, stack |-> <<>>, res |-> res]
    ELSE LET parent == Head(stk)
             all_results == parent.all_results \o res
         IN  IF parent.pend # <<>>
             THEN [done |-> FALSE,
                   stack |-> <<NewFrame(Head(parent.pend), t),
                               [parent EXCEPT !.all_results = all_results,
                                              !.pend = Tail(@)]>>
                             \o Tail(stk),
                   res |-> <<>>]
             ELSE Return(Tail(stk), all_results, t)

\* lines 235-263 and what follows the return of the frame, the call having
\* been answered at time t
Succeeded(t) ==
    LET objs == NewResults(Top.texts, remote + 1)
        h == heap \o objs
        refs == [i \in 1..Len(objs) |-> Len(heap) + i]
        r == Return(Tail(stack), refs, t)
        brs == batch_results \o r.res
        going == [cache |-> cache, heap |-> h, outcome |-> outcome,
                  held |-> held, pc |-> "attempt", stack |-> r.stack,
                  batches |-> batches, results |-> results,
                  uncached_indices |-> uncached_indices,
                  batch_results |-> batch_results]
    IN  IF ~r.done THEN going
        ELSE IF batches # <<>>
        THEN [going EXCEPT !.stack = <<NewFrame(Head(batches), t)>>,
                           !.batches = Tail(batches),
                           !.batch_results = brs]
        ELSE Completed(outcome, results, brs, uncached_indices, cache, h, t,
                       remote + 1, held)

\* lines 227-263: the remote call succeeds
RemoteSuccess ==
    /\ Attempting
    /\ now' = Throttle(now)
    /\ last_request_time' = Throttle(now)
    /\ effective_batch_size' = OnSuccess(effective_batch_size)
    /\ Record("ok", NoError, "return")
    /\ Locals(Succeeded(Throttle(now)))
    /\ UNCHANGED <<settings_batch_size, enable_cache, texts, calls,
                   prev_outcome>>
    /\ UNCHANGED others

\* lines 265-285: a retryable failure of a group that can still shrink
Split(e) ==
    /\ Attempting
    /\ now' = Throttle(now)
    /\ ShouldSplit(e, Len(Top.texts), effective_batch_size)
    /\ LET size == new_size(effective_batch_size)
           sub_batches == _create_batches(Top.texts, size)
       IN  /\ effective_batch_size' = size
           /\ Record("fail", e, "split")
           /\ stack' = <<NewFrame(Head(sub_batches), Throttle(now)),
                         [Top EXCEPT !.pend = Tail(sub_batches)]>>
                       \o Tail(stack)
    /\ pc' = "attempt"
    /\ UNCHANGED <<settings_batch_size, enable_cache, last_request_time,
                   cache, heap, texts, results, uncached_indices, batches,
                   batch_results, calls, outcome, prev_outcome, held>>
    /\ UNCHANGED others

\* lines 287-305: a rate limit on a group that cannot shrink: wait, retry
Backoff(e) ==
    /\ Attempting
    /\ ~ShouldSplit(e, Len(Top.texts), effective_batch_size)
    /\ CanBackoff(e, Top.attempt)
    /\ now' = Throttle(now) + BackoffDelay(e)
    /\ Record("fail", e, "backoff")
    /\ stack' = <<[Top EXCEPT !.attempt = @ + 1]>>
                \o Tail(stack)
    /\ pc' = "attempt"
    /\ UNCHANGED <<settings_batch_size, enable_cache, effective_batch_size,
                   last_request_time, cache, heap, texts, results,
                   uncached_indices, batches, batch_results, calls, outcome,
                   prev_outcome, held>>
    /\ UNCHANGED others

\* lines 307-308: the error leaves _process_batch and, through every frame
\* above it, create_embeddings_batch
Raise(e) ==
    /\ Attempting
    /\ now' = Throttle(now)
    /\ ~ShouldSplit(e, Len(Top.texts), effective_batch_size)
    /\ ~CanBackoff(e, Top.attempt)
    /\ Record("fail", e, "raise")
    /\ outcome' = [outcome EXCEPT !.kind = "raised", !.err = e,
                                  !.remote = remote' - @, !.end = now']
    /\ stack' = <<>>
    /\ batches' = <<>>
    /\ results' = <<>>
    /\ uncached_indices' = <<>>
    /\ batch_results' = <<>>
    /\ pc' = "idle"
    /\ UNCHANGED <<settings_batch_size, enable_cache, effective_batch_size,
                   last_request_time, cache, heap, texts, calls,
                   prev_outcome, held>>
    /\ UNCHANGED others

----------------------------------------------------------------------------
\* EmbeddingService.__init__ with the given settings.batch_size and
\* enable_cache
Constructed(sizes, caching) ==
    /\ settings_batch_size \in sizes
    /\ enable_cache \in caching
    /\ effective_batch_size = InitialBatchSize(settings_batch_size)
    /\ last_request_time = 0
    /\ cache = <<>>
    /\ heap = <<>>
    /\ now = StartTime
    /\ pc = "idle"
    /\ texts = <<>>
    /\ results = <<>>
    /\ uncached_indices = <<>>
    /\ batches = <<>>
    /\ batch_results = <<>>
    /\ stack = <<>>
    /\ calls = 0
    /\ remote = 0
    /\ outcome = NoOutcome
    /\ prev_outcome = NoOutcome
    /\ held = {}
    /\ last_attempt = NoAttempt
    /\ issued = [before |-> [kind |-> "none", time |-> 0],
                 latest |-> [kind |-> "none", time |-> 0]]

\* the parts of the state a run does not exercise stay as they are here
NoOp ==
    [kind |-> "none", key |-> <<>>, hit |-> FALSE, result |-> 0,
     pre |-> <<>>, time |-> 0, n |-> 0,
     prev |-> [kind |-> "none", key |-> <<>>, hit |-> FALSE]]

NoTasks == <<>>

NoChunking == [pc |-> "none"]

NoFingerprints == [pc |-> "none"]

NoDocument == [pc |-> "none"]

NoQueries == [pc |-> "none"]

NoEnrichment == [pc |-> "none"]

NoBulk == [pc |-> "none"]

NoUpdates == <<>>

Init ==
    /\ Constructed(BatchSizes, BOOLEAN)
    /\ cache_max_size = max_size
    /\ op = NoOp
    /\ tasks = NoTasks
    /\ ck = NoChunking
    /\ fp = NoFingerprints
    /\ doc = NoDocument
    /\ dq = NoQueries
    /\ em = NoEnrichment
    /\ bk = NoBulk
    /\ applied = NoUpdates

Next ==
    \/ \E ts \in Inputs, gap \in IdleGaps : create_embeddings_batch(ts, gap)
    \/ RemoteSuccess
    \/ \E e \in Errors : Split(e)
    \/ \E e \in Errors : Backoff(e)
    \/ \E e \in Errors : Raise(e)

Spec == Init /\ [][Next]_vars

----------------------------------------------------------------------------
(* A caller that embeds one text at a time with create_embedding, lines     *)
(* 120-123: every group is one text, so that no failure shrinks the batch   *)
(* size and successes follow one another.                                    *)

MaxSingles == 3     \* create_embedding invocations in one run

SingleTexts == {TextA, TextC}

SingleSizes == {16, 500, 2040}

create_embedding(text, gap) ==
    /\ calls < MaxSingles
    /\ Invoke(<<text>>, gap)
    /\ UNCHANGED others

SingleInit ==
    /\ Constructed(SingleSizes, BOOLEAN)
    /\ cache_max_size = max_size
    /\ op = NoOp
    /\ tasks = NoTasks
    /\ ck = NoChunking
    /\ fp = NoFingerprints
    /\ doc = NoDocument
    /\ dq = NoQueries
    /\ em = NoEnrichment
    /\ bk = NoBulk
    /\ applied = NoUpdates

SingleNext ==
    \/ \E text \in SingleTexts, gap \in IdleGaps : create_embedding(text, gap)
    \/ RemoteSuccess
    \/ \E e \in Errors : Backoff(e)
    \/ \E e \in Errors : Raise(e)

SingleSpec == SingleInit /\ [][SingleNext]_vars

----------------------------------------------------------------------------
(* EmbeddingCache used directly: get, set and clear on a cache constructed  *)
(* with a small max_size, and a clock that moves between the calls.         *)

MaxOps == 4         \* EmbeddingCache method calls in one run
MaxTicks == 3       \* how far the clock moves, in half TTLs

MaxSizes == {1, 2}

CacheTexts == {TextA, TextB, TextC}

Ticks == {ttl \div 2}

\* lines 72-75
EmbeddingCache_clear(c) == <<>>

Called(kind, text_hash, hit, result) ==
    [kind |-> kind, key |-> text_hash, hit |-> hit, result |-> result,
     pre |-> cache, time |-> now, n |-> op.n + 1,
     prev |-> [kind |-> op.kind, key |-> op.key, hit |-> op.hit]]

UsingCache ==
    UNCHANGED <<settings_batch_size, enable_cache, effective_batch_size,
                last_request_time, pc, texts, results, uncached_indices,
                batches, batch_results, stack, calls, remote, outcome,
                prev_outcome, held, last_attempt, issued, cache_max_size,
                tasks, ck, fp, doc, dq, em, bk,
                applied>>

CacheGet(text) ==
    /\ op.n < MaxOps
    /\ LET text_hash == _hash_text(_preprocess_text(text))
           g == EmbeddingCache_get(cache, heap, text_hash, now)
       IN  /\ cache' = g.cache
           /\ heap' = g.heap
           /\ op' = Called("get", text_hash, g.hit, g.result)
    /\ UNCHANGED now
    /\ UsingCache

\* set is handed a result the service has just built, lines 240-248
CacheSet(text) ==
    /\ op.n < MaxOps
    /\ LET processed == _preprocess_text(text)
           text_hash == _hash_text(processed)
           result == Len(heap) + 1
       IN  /\ heap' = heap \o NewResults(<<processed>>, result)
           /\ cache' = EmbeddingCache_set(cache, cache_max_size, text_hash,
                                          result, now)
           /\ op' = Called("set", text_hash, FALSE, result)
    /\ UNCHANGED now
    /\ UsingCache

CacheClear ==
    /\ op.n < MaxOps
    /\ cache' = EmbeddingCache_clear(cache)
    /\ op' = Called("clear", <<>>, FALSE, 0)
    /\ UNCHANGED <<heap, now>>
    /\ UsingCache

\* datetime.now() moves on between two calls
Tick(d) ==
    /\ now + d <= StartTime + MaxTicks * (ttl \div 2)
    /\ now' = now + d
    /\ UNCHANGED <<cache, heap, op>>
    /\ UsingCache

CacheInit ==
    /\ Constructed({MIN_BATCH_SIZE}, {TRUE})
    /\ cache_max_size \in MaxSizes
    /\ op = NoOp
    /\ tasks = NoTasks
    /\ ck = NoChunking
    /\ fp = NoFingerprints
    /\ doc = NoDocument
    /\ dq = NoQueries
    /\ em = NoEnrichment
    /\ bk = NoBulk
    /\ applied = NoUpdates

CacheNext ==
    \/ \E text \in CacheTexts : CacheGet(text)
    \/ \E text \in CacheTexts : CacheSet(text)
    \/ CacheClear
    \/ \E d \in Ticks : Tick(d)

CacheSpec == CacheInit /\ [][CacheNext]_vars

----------------------------------------------------------------------------
(* Several create_embeddings_batch coroutines on one service and one event  *)
(* loop.  A coroutine gives up the loop only in asyncio.sleep; the remote    *)
(* call of line 227 is synchronous and holds the loop for as long as it      *)
(* takes.  Every group is one _process_batch whose call succeeds, or fails   *)
(* with an error that is raised.                                             *)

MaxTasks == 2       \* coroutines on the event loop
MaxGroups == 2      \* groups of one create_embeddings_batch

Durations == {min_request_interval \div 5, min_request_interval + 50}

\* lines 221-224: until when the coroutine sleeps, if it does
SleepUntil(current_time, last) ==
    LET time_since_last == current_time - last
    IN  IF time_since_last < min_request_interval
        THEN current_time + (min_request_interval - time_since_last)
        ELSE current_time

\* lines 227-263 and the loop of line 156: the call is issued at time t and
\* takes d; after a success the coroutine goes on to its next group, where
\* the throttle puts it to sleep
AfterCall(task, t, d, ok) ==
    IF ~ok THEN [pc |-> "done", wake |-> 0, left |-> 0]
    ELSE IF task.left = 1 THEN [pc |-> "done", wake |-> 0, left |-> 0]
    ELSE [pc |-> "sleeping", wake |-> SleepUntil(t + d, t + d),
          left |-> task.left - 1]

RemoteCall(i, t, d, ok) ==
    /\ now' = t + d
    /\ last_request_time' = IF ok THEN t + d ELSE last_request_time
    /\ remote' = remote + 1
    /\ issued' = [before |-> issued.latest,
                  latest |-> [kind |-> IF ok THEN "ok" ELSE "fail",
                              time |-> t]]
    /\ tasks' = [tasks EXCEPT ![i] = AfterCall(tasks[i], t, d, ok)]

Sharing ==
    UNCHANGED <<settings_batch_size, enable_cache, effective_batch_size,
                cache, heap, pc, texts, results, uncached_indices, batches,
                batch_results, stack, calls, outcome, prev_outcome, held,
                last_attempt, cache_max_size, op, ck, fp, doc, dq, em, bk,
                applied>>

\* lines 221-224: the coroutine reaches the throttle and has to sleep
ThrottleSleep(i) ==
    /\ tasks[i].pc = "ready"
    /\ now - last_request_time < min_request_interval
    /\ tasks' = [tasks EXCEPT ![i].pc = "sleeping",
                              ![i].wake = SleepUntil(now, last_request_time)]
    /\ UNCHANGED <<now, last_request_time, remote, issued>>
    /\ Sharing

\* lines 221-227: the coroutine reaches the throttle and need not sleep
CallAtOnce(i, d, ok) ==
    /\ tasks[i].pc = "ready"
    /\ now - last_request_time >= min_request_interval
    /\ RemoteCall(i, now, d, ok)
    /\ Sharing

\* lines 224-227: the sleep is over, as soon as the loop is free; the call
\* follows at once
WakeAndCall(i, d, ok) ==
    /\ tasks[i].pc = "sleeping"
    /\ \A j \in 1..Len(tasks) :
           tasks[j].pc = "sleeping" => tasks[j].wake >= tasks[i].wake
    /\ RemoteCall(i, Max(now, tasks[i].wake), d, ok)
    /\ Sharing

ConcInit ==
    /\ Constructed({MIN_BATCH_SIZE}, {FALSE})
    /\ cache_max_size = max_size
    /\ op = NoOp
    /\ tasks \in [1..MaxTasks ->
                     {[pc |-> "ready", wake |-> 0, left |-> n] :
                          n \in 1..MaxGroups}]
    /\ ck = NoChunking
    /\ fp = NoFingerprints
    /\ doc = NoDocument
    /\ dq = NoQueries
    /\ em = NoEnrichment
    /\ bk = NoBulk
    /\ applied = NoUpdates

ConcNext ==
    \/ \E i \in 1..MaxTasks : ThrottleSleep(i)
    \/ \E i \in 1..MaxTasks, d \in Durations, ok \in BOOLEAN :
           CallAtOnce(i, d, ok)
    \/ \E i \in 1..MaxTasks, d \in Durations, ok \in BOOLEAN :
           WakeAndCall(i, d, ok)

ConcSpec == ConcInit /\ [][ConcNext]_vars

----------------------------------------------------------------------------
(* chunk_text, lines 310-346, one iteration of its loop at a time.  An      *)
(* optional argument is <<>> for None and <<v>> for the value v; a window   *)
(* is <<start, end>>, the slice tokens[start:end].                          *)

MaxTokens == 6      \* tokens of the longest text that is chunked
MaxChunks == 8      \* chunks one chunk_text may produce

Passage(n) == [i \in 1..n |-> Vocabulary[(i % 5) + 1]]

ChunkTexts == {Passage(n) : n \in 0..MaxTokens}

ChunkSizes == {<<>>} \cup {<<n>> : n \in 1..3}

Overlaps == {<<>>} \cup {<<n>> : n \in 0..4}

\* settings.chunk_overlap_tokens
OverlapSettings == {0, 2}

\* x or y, for an optional integer x
Or(x, y) == IF x = <<>> THEN y ELSE IF x[1] = 0 THEN y ELSE x[1]

\* tokens[start:end], with Python's 0-based bounds
Slice(tokens, start, end) == SubSeq(tokens, start + 1, end)

NextStart_stalled(start, end, overlap) == Max(start, end - overlap)

\* line 343
NextStart(start, end, overlap) == Max(start + 1, end - overlap)

\* the call chunk_text(text, chunk_size, overlap), before its first line
ChunkCall(text, chunk_size, overlap, setting) ==
    [pc |-> "called", text |-> text, chunk_size_arg |-> chunk_size,
     overlap_arg |-> overlap, chunk_overlap_tokens |-> setting,
     chunk_size |-> 0, overlap |-> 0, tokens |-> <<>>, start |-> 0,
     chunks |-> <<>>, windows |-> <<>>]

\* lines 317-330
ChunkEnter(c) ==
    LET chunk_size == Or(c.chunk_size_arg, max_tokens)
        overlap == Or(c.overlap_arg, c.chunk_overlap_tokens)
        tokens == encode(c.text)
        set == [c EXCEPT !.chunk_size = chunk_size, !.overlap = overlap]
    IN  IF c.text = <<>> THEN [c EXCEPT !.pc = "done"]
        ELSE IF Len(tokens) <= chunk_size
        THEN [set EXCEPT !.pc = "done", !.tokens = tokens,
                         !.chunks = <<c.text>>,
                         !.windows = <<<<0, Len(tokens)>>>>]
        ELSE [set EXCEPT !.pc = "loop", !.tokens = tokens]

\* lines 332-343: one iteration of the while loop
ChunkStep(c) ==
    LET end == Min(c.start + c.chunk_size, Len(c.tokens))
        chunk_tokens == Slice(c.tokens, c.start, end)
        more == [c EXCEPT !.chunks = Append(@, decode(chunk_tokens)),
                          !.windows = Append(@, <<c.start, end>>)]
    IN  IF end >= Len(c.tokens) THEN [more EXCEPT !.pc = "done"]
        ELSE LET start == NextStart(c.start, end, c.overlap)
             IN  IF start < Len(c.tokens)
                 THEN [more EXCEPT !.start = start]
                 ELSE [more EXCEPT !.start = start, !.pc = "done"]

Chunking ==
    UNCHANGED <<service, cache_max_size, op, tasks, fp, doc, dq, em, bk,
                applied>>

chunk_text_enter ==
    /\ ck.pc = "called"
    /\ ck' = ChunkEnter(ck)
    /\ Chunking

chunk_text_loop ==
    /\ ck.pc = "loop"
    /\ Len(ck.chunks) < MaxChunks
    /\ ck' = ChunkStep(ck)
    /\ Chunking

ChunkInit ==
    /\ Constructed({MIN_BATCH_SIZE}, {FALSE})
    /\ cache_max_size = max_size
    /\ op = NoOp
    /\ tasks = NoTasks
    /\ ck \in {ChunkCall(text, chunk_size, overlap, setting) :
                   text \in ChunkTexts, chunk_size \in ChunkSizes,
                   overlap \in Overlaps, setting \in OverlapSettings}
    /\ fp = NoFingerprints
    /\ doc = NoDocument
    /\ dq = NoQueries
    /\ em = NoEnrichment
    /\ bk = NoBulk
    /\ applied = NoUpdates

ChunkNext == chunk_text_enter \/ chunk_text_loop

ChunkSpec == ChunkInit /\ [][ChunkNext]_vars

\* the loop is sequential code: it takes its next step whenever it has one
ChunkLive == ChunkSpec /\ WF_vars(ChunkNext)

----------------------------------------------------------------------------
(* embed_document_with_chunks, lines 348-364, on the service of Spec.       *)

MaxDocs == 2        \* embed_document_with_chunks invocations in one run

Documents == {Passage(0), Passage(2), Passage(5), Passage(7)}

DocChunkSizes == {<<>>, <<2>>, <<4>>}

\* chunk_text run to its return
RECURSIVE ChunkRun(_)
ChunkRun(c) ==
    IF c.pc = "done" THEN c
    ELSE IF c.pc = "called" THEN ChunkRun(ChunkEnter(c))
    ELSE ChunkRun(ChunkStep(c))

chunk_text(text, chunk_size, overlap, setting) ==
    ChunkRun(ChunkCall(text, chunk_size, overlap, setting)).chunks

DocReturn_last(chunks, rs) ==
    IF Len(chunks) > 1
    THEN [main_embedding |-> rs[Len(rs)], chunk_embeddings |-> rs]
    ELSE [main_embedding |-> rs[1], chunk_embeddings |-> <<>>]

\* lines 356-364: what is returned, rs being what create_embeddings_batch
\* returned
DocReturn(chunks, rs) ==
    IF Len(chunks) > 1
    THEN [main_embedding |-> rs[1], chunk_embeddings |-> rs]
    ELSE [main_embedding |-> rs[1], chunk_embeddings |-> <<>>]

embed_document_with_chunks(content, chunk_size, gap) ==
    /\ calls < MaxDocs
    /\ LET chunks == chunk_text(content, chunk_size, <<>>,
                                doc.chunk_overlap_tokens)
       IN  /\ doc' = [doc EXCEPT !.pc = "called", !.content = content,
                                 !.chunks = chunks]
           /\ IF Len(chunks) > 1
              THEN Invoke(chunks, gap)
              ELSE Invoke(<<content>>, gap)
    /\ UNCHANGED <<cache_max_size, op, tasks, ck, fp, dq, em, bk,
                applied>>

DocInit ==
    /\ Constructed({2 * MIN_BATCH_SIZE}, {TRUE})
    /\ cache_max_size = max_size
    /\ op = NoOp
    /\ tasks = NoTasks
    /\ ck = NoChunking
    /\ fp = NoFingerprints
    /\ doc \in {[pc |-> "idle", content |-> <<>>, chunks |-> <<>>,
                  chunk_overlap_tokens |-> setting] :
                     setting \in OverlapSettings}
    /\ dq = NoQueries
    /\ em = NoEnrichment
    /\ bk = NoBulk
    /\ applied = NoUpdates

DocNext ==
    \/ \E content \in Documents, chunk_size \in DocChunkSizes :
           embed_document_with_chunks(content, chunk_size,
                                      min_request_interval \div 2)
    \/ RemoteSuccess
    \/ \E e \in Errors : Split(e)
    \/ \E e \in Errors : Backoff(e)
    \/ \E e \in Errors : Raise(e)

DocSpec == DocInit /\ [][DocNext]_vars

----------------------------------------------------------------------------
(* _hash_text under two model identifiers, lines 189-192: one text is       *)
(* fingerprinted under self.model = model_1 and its result cached, then     *)
(* fingerprinted and looked up under self.model = model_2.                  *)

Models == {<<"m">>, <<"a">>, <<"a", ":", "m">>, <<"m", ":">>}

HashTexts ==
    {<<>>, <<"a">>, <<"a", ":">>, <<"a", ":", "a">>, <<"b", SP, "c">>}

HashCall(text, model_1, model_2) ==
    [pc |-> "called", text |-> text, model_1 |-> model_1,
     model_2 |-> model_2, hash_1 |-> <<>>, hash_2 |-> <<>>, hit |-> FALSE]

Hashing ==
    UNCHANGED <<settings_batch_size, enable_cache, effective_batch_size,
                last_request_time, now, pc, texts, results,
                uncached_indices, batches, batch_results, stack, calls,
                remote, outcome, prev_outcome, held, last_attempt, issued,
                cache_max_size, op, tasks, ck, doc, dq, em, bk,
                applied>>

\* the service of model_1 embeds the text and caches the result
StoreUnderFirst ==
    /\ fp.pc = "called"
    /\ LET text_hash == _hash_text_under(fp.text, fp.model_1)
           result == Len(heap) + 1
       IN  /\ heap' = Append(heap, [embedding |-> <<fp.text, fp.model_1>>,
                                    text_hash |-> text_hash,
                                    cached |-> FALSE])
           /\ cache' = EmbeddingCache_set(cache, cache_max_size, text_hash,
                                          result, now)
           /\ fp' = [fp EXCEPT !.pc = "stored", !.hash_1 = text_hash]
    /\ Hashing

\* the same text is looked up under model_2
LookupUnderSecond ==
    /\ fp.pc = "stored"
    /\ LET text_hash == _hash_text_under(fp.text, fp.model_2)
           g == EmbeddingCache_get(cache, heap, text_hash, now)
       IN  /\ heap' = g.heap
           /\ cache' = g.cache
           /\ fp' = [fp EXCEPT !.pc = "done", !.hash_2 = text_hash,
                               !.hit = g.hit]
    /\ Hashing

HashInit ==
    /\ Constructed({MIN_BATCH_SIZE}, {TRUE})
    /\ cache_max_size = max_size
    /\ op = NoOp
    /\ tasks = NoTasks
    /\ ck = NoChunking
    /\ fp \in {HashCall(text, model_1, model_2) :
                   text \in HashTexts, model_1 \in Models, model_2 \in Models}
    /\ doc = NoDocument
    /\ dq = NoQueries
    /\ em = NoEnrichment
    /\ bk = NoBulk
    /\ applied = NoUpdates

HashNext == StoreUnderFirst \/ LookupUnderSecond

HashSpec == HashInit /\ [][HashNext]_vars

----------------------------------------------------------------------------
(* document_to_search_queries of core/services/document_query_strategy.py,  *)
(* lines 18-67, one iteration of its loop at a time.  A span is the slice   *)
(* <<from, to>> of the stripped document a query was cut from.              *)

MaxWindow == 5      \* the largest window_size
MaxStep == 6        \* the largest step_size

QueryDocuments ==
    {<<>>, <<SP>>,
     <<"a", "b", "c", SP, "d", "e">>,
     <<"a", SP, "b", SP, "c", SP, "d">>,
     <<SP, "a", "b", "c", "d", "e", "a", SP>>,
     <<"a", "a", SP, SP, "b", ":", SP, "c", "c">>}

\* str.isalnum for one character
isalnum(ch) == ch \in {"a", "b", "c", "d", "m"}

\* how many blanks s starts with
RECURSIVE Leading(_)
Leading(s) ==
    IF s = <<>> THEN 0
    ELSE IF Head(s) = SP THEN 1 + Leading(Tail(s)) ELSE 0

\* str.rstrip
RECURSIVE rstrip(_)
rstrip(s) ==
    IF s = <<>> THEN s
    ELSE IF s[Len(s)] = SP THEN rstrip(SubSeq(s, 1, Len(s) - 1)) ELSE s

\* str.strip
strip(s) == rstrip(SubSeq(s, Leading(s) + 1, Len(s)))

\* str.rfind(" "): the 0-based index of the last blank, or -1
rfind(s) ==
    IF \E i \in 1..Len(s) : s[i] = SP
    THEN (CHOOSE i \in 1..Len(s) :
              s[i] = SP /\ \A j \in (i + 1)..Len(s) : s[j] # SP) - 1
    ELSE -1

QueryCall(document_text, window_size, step_size) ==
    [pc |-> "called", document_text |-> document_text,
     window_size |-> window_size, step_size_arg |-> step_size,
     step_size |-> step_size, text |-> <<>>, start |-> 0,
     queries |-> <<>>, spans |-> <<>>]

\* lines 38-50
QueryEnter(q) ==
    LET text == strip(q.document_text)
    IN  IF q.document_text = <<>> \/ text = <<>>
        THEN [q EXCEPT !.pc = "done"]
        ELSE IF Len(text) <= q.window_size
        THEN [q EXCEPT !.pc = "done", !.text = text, !.queries = <<text>>,
                       !.spans = <<<<0, Len(text)>>>>]
        ELSE [q EXCEPT !.pc = "loop", !.text = text,
                       !.step_size = Max(1, Min(q.step_size, q.window_size))]

\* lines 53-60: the window from start on, trimmed to a word boundary
Trimmed(text, start, window_size) ==
    LET end == Min(start + window_size, Len(text))
        chunk == Slice(text, start, end)
        last_space == rfind(chunk)
    IN  IF end < Len(text) /\ chunk # <<>> /\ isalnum(chunk[Len(chunk)])
        THEN IF last_space > Len(chunk) \div 2
             THEN rstrip(SubSeq(chunk, 1, last_space + 1))
             ELSE chunk
        ELSE chunk

\* lines 52-65: one iteration of the while loop
QueryStep(q) ==
    LET chunk == Trimmed(q.text, q.start, q.window_size)
        from == q.start + Leading(chunk)
        kept == IF strip(chunk) # <<>>
                THEN [q EXCEPT !.queries = Append(@, strip(chunk)),
                               !.spans = Append(@, <<from,
                                                     from + Len(strip(chunk))>>)]
                ELSE q
        start == q.start + q.step_size
    IN  [kept EXCEPT !.start = start,
                     !.pc = IF start < Len(q.text) THEN "loop" ELSE "done"]

Querying ==
    UNCHANGED <<service, cache_max_size, op, tasks, ck, fp, doc, em, bk,
                applied>>

document_to_search_queries_enter ==
    /\ dq.pc = "called"
    /\ dq' = QueryEnter(dq)
    /\ Querying

document_to_search_queries_loop ==
    /\ dq.pc = "loop"
    /\ dq' = QueryStep(dq)
    /\ Querying

QueryInit ==
    /\ Constructed({MIN_BATCH_SIZE}, {FALSE})
    /\ cache_max_size = max_size
    /\ op = NoOp
    /\ tasks = NoTasks
    /\ ck = NoChunking
    /\ fp = NoFingerprints
    /\ doc = NoDocument
    /\ dq \in {QueryCall(document_text, window_size, step_size) :
                   document_text \in QueryDocuments,
                   window_size \in 1..MaxWindow, step_size \in 0..MaxStep}
    /\ em = NoEnrichment
    /\ bk = NoBulk
    /\ applied = NoUpdates

QueryNext ==
    document_to_search_queries_enter \/ document_to_search_queries_loop

QuerySpec == QueryInit /\ [][QueryNext]_vars

----------------------------------------------------------------------------
(* create_embedding against an endpoint whose rate limit messages name      *)
(* tokens per minute, a time to try again in, both or neither.  again_ms    *)
(* and again_s are the numbers the regular expressions of lines 291 and 295 *)
(* find in the message, -1 where they find none.                            *)

ErrTpm ==
    [name |-> "429 rate limit reached on tokens per min (tpm)",
     marks |-> {"429", "rate limit", "tokens per min", "tpm"},
     again_ms |-> -1, again_s |-> -1]

ErrTpmAgainMs ==
    [name |-> "429 tokens per min, please try again in 500ms",
     marks |-> {"429", "tokens per min", "try again in"},
     again_ms |-> 500, again_s |-> -1]

ErrTpmAgainS ==
    [name |-> "rate limit reached on tpm, please try again in 7s",
     marks |-> {"rate limit", "tpm", "try again in"},
     again_ms |-> -1, again_s |-> 7]

ErrTpmAgainSoon ==
    [name |-> "429 tpm, please try again in a moment",
     marks |-> {"429", "tpm", "try again in"},
     again_ms |-> -1, again_s |-> -1]

ErrAgainMs ==
    [name |-> "429 please try again in 20ms",
     marks |-> {"429", "try again in"}, again_ms |-> 20, again_s |-> -1]

LimitErrors ==
    {Err429, ErrTpm, ErrTpmAgainMs, ErrTpmAgainS, ErrTpmAgainSoon, ErrAgainMs,
     ErrAuth}

LimitInit ==
    /\ Constructed({MIN_BATCH_SIZE}, {FALSE})
    /\ cache_max_size = max_size
    /\ op = NoOp
    /\ tasks = NoTasks
    /\ ck = NoChunking
    /\ fp = NoFingerprints
    /\ doc = NoDocument
    /\ dq = NoQueries
    /\ em = NoEnrichment
    /\ bk = NoBulk
    /\ applied = NoUpdates

LimitNext ==
    \/ \E gap \in IdleGaps : create_embedding(TextA, gap)
    \/ RemoteSuccess
    \/ \E e \in LimitErrors : Backoff(e)
    \/ \E e \in LimitErrors : Raise(e)

LimitSpec == LimitInit /\ [][LimitNext]_vars

----------------------------------------------------------------------------
(* Several create_embeddings_batch coroutines on one service whose cache    *)
(* was given a small max_size.  The remote call of line 227 blocks the      *)
(* event loop, so a coroutine runs from one asyncio.sleep to the next       *)
(* (lines 224 and 304) or to its end without another coroutine in between:  *)
(* "running" is the coroutine the loop is executing, at line 220.  The      *)
(* frames of a coroutine are kept as the list of the groups it has still to *)
(* send, the group in hand first.                                           *)

SharedInputs == {<<TextC, TextA>>, LongInput}

SharedSizes == {2 * MIN_BATCH_SIZE}

SharedErrors == {Err429, ErrAuth}

SharedDurations == {min_request_interval \div 5}

SharedTask(ts) ==
    [pc |-> "ready", texts |-> ts, wake |-> 0, after |-> "none",
     todo |-> <<>>, attempt |-> 0, got |-> <<>>, done_at |-> 0,
     last_key |-> <<>>]

\* lines 161-166 on a cache of the given max_size
RECURSIVE SharedStore(_, _, _, _, _)
SharedStore(i, brs, c, h, t) ==
    IF i > Len(brs) THEN c
    ELSE SharedStore(i + 1, brs,
                     EmbeddingCache_set(c, cache_max_size,
                                        h[brs[i]].text_hash, brs[i], t),
                     h, t)

Idle == \A j \in 1..Len(tasks) : tasks[j].pc # "running"

SharedFrame ==
    UNCHANGED <<settings_batch_size, enable_cache, pc, texts, results,
                uncached_indices, batches, batch_results, stack, calls,
                outcome, prev_outcome, held, last_attempt, issued,
                cache_max_size, op, ck, fp, doc, dq, em, bk>>

\* lines 127-156: the loop takes up a coroutine that has not run yet
SharedStart(i) ==
    /\ tasks[i].pc = "ready"
    /\ Idle
    /\ LET task == tasks[i]
           processed == [k \in 1..Len(task.texts) |->
                            _preprocess_text(task.texts[k])]
           st == Scan(processed, 1,
                      [cache |-> cache, heap |-> heap, results |-> <<>>,
                       uncached_texts |-> <<>>, uncached_indices |-> <<>>],
                      now)
       IN  /\ cache' = st.cache
           /\ heap' = st.heap
           /\ tasks' = [tasks EXCEPT ![i] =
                  IF st.uncached_texts = <<>>
                  THEN [task EXCEPT !.pc = "done", !.done_at = remote]
                  ELSE [task EXCEPT
                           !.pc = "running",
                           !.todo = _create_batches(st.uncached_texts,
                                                    effective_batch_size)]]
    /\ UNCHANGED <<now, last_request_time, effective_batch_size, remote,
                   applied>>
    /\ SharedFrame

\* lines 221-224: the throttle puts the running coroutine to sleep
SharedThrottle(i) ==
    /\ tasks[i].pc = "running"
    /\ now - last_request_time < min_request_interval
    /\ tasks' = [tasks EXCEPT ![i].pc = "sleeping", ![i].after = "call",
                              ![i].wake = SleepUntil(now, last_request_time)]
    /\ UNCHANGED <<now, last_request_time, effective_batch_size, remote,
                   cache, heap, applied>>
    /\ SharedFrame

\* lines 227-308 and 156-166: the call of coroutine i is issued at time t,
\* takes d and is answered with e, and the coroutine runs on to its next
\* sleep, to line 220 of its next group or to its end
SharedRemote(i, t, d, e) ==
    LET task == tasks[i]
        group == Head(task.todo)
        objs == NewResults(group, remote + 1)
        refs == [k \in 1..Len(objs) |-> Len(heap) + k]
        got == task.got \o refs
        size == new_size(effective_batch_size)
    IN  /\ remote < MaxRemote
        /\ remote' = remote + 1
        /\ now' = t + d
        /\ IF e = NoError
           THEN /\ last_request_time' = t + d
                /\ effective_batch_size' = OnSuccess(effective_batch_size)
                /\ applied' = Append(applied, "increase")
                /\ heap' = heap \o objs
                /\ IF Tail(task.todo) = <<>>
                   THEN /\ cache' = SharedStore(1, got, cache, heap', t + d)
                        /\ tasks' = [tasks EXCEPT ![i] =
                               [task EXCEPT
                                   !.pc = "done", !.todo = <<>>, !.got = got,
                                   !.done_at = remote + 1,
                                   !.last_key =
                                       heap'[got[Len(got)]].text_hash]]
                   ELSE /\ cache' = cache
                        /\ tasks' = [tasks EXCEPT ![i] =
                               [task EXCEPT !.pc = "running", !.got = got,
                                            !.todo = Tail(@),
                                            !.attempt = 0]]
           ELSE IF ShouldSplit(e, Len(group), effective_batch_size)
           THEN /\ effective_batch_size' = size
                /\ applied' = Append(applied, "decrease")
                /\ tasks' = [tasks EXCEPT ![i] =
                       [task EXCEPT !.pc = "running", !.attempt = 0,
                                    !.todo = _create_batches(group, size)
                                                 \o Tail(@)]]
                /\ UNCHANGED <<last_request_time, cache, heap>>
           ELSE IF CanBackoff(e, task.attempt)
           THEN /\ tasks' = [tasks EXCEPT ![i] =
                       [task EXCEPT !.pc = "sleeping", !.after = "retry",
                                    !.wake = t + d + BackoffDelay(e),
                                    !.attempt = @ + 1]]
                /\ UNCHANGED <<last_request_time, effective_batch_size,
                               applied, cache, heap>>
           ELSE /\ tasks' = [tasks EXCEPT ![i] =
                       [task EXCEPT !.pc = "raised", !.todo = <<>>,
                                    !.done_at = remote + 1]]
                /\ UNCHANGED <<last_request_time, effective_batch_size,
                               applied, cache, heap>>

\* lines 221-227: the running coroutine need not sleep
SharedCallAtOnce(i, d, e) ==
    /\ tasks[i].pc = "running"
    /\ now - last_request_time >= min_request_interval
    /\ SharedRemote(i, now, d, e)
    /\ SharedFrame

Due(i) ==
    /\ tasks[i].pc = "sleeping"
    /\ Idle
    /\ \A j \in 1..Len(tasks) :
           tasks[j].pc = "sleeping" => tasks[j].wake >= tasks[i].wake

\* lines 224-227: the throttle's sleep is over and the call follows at once
SharedWakeAndCall(i, d, e) ==
    /\ Due(i)
    /\ tasks[i].after = "call"
    /\ SharedRemote(i, Max(now, tasks[i].wake), d, e)
    /\ SharedFrame

\* lines 304-305: the backoff's sleep is over, on to the next attempt
SharedWakeAndRetry(i) ==
    /\ Due(i)
    /\ tasks[i].after = "retry"
    /\ now' = Max(now, tasks[i].wake)
    /\ tasks' = [tasks EXCEPT ![i].pc = "running"]
    /\ UNCHANGED <<last_request_time, effective_batch_size, remote, cache,
                   heap, applied>>
    /\ SharedFrame

SharedInit ==
    /\ Constructed(SharedSizes, {TRUE})
    /\ cache_max_size \in MaxSizes
    /\ op = NoOp
    /\ tasks \in [1..MaxTasks -> {SharedTask(ts) : ts \in SharedInputs}]
    /\ ck = NoChunking
    /\ fp = NoFingerprints
    /\ doc = NoDocument
    /\ dq = NoQueries
    /\ em = NoEnrichment
    /\ bk = NoBulk
    /\ applied = NoUpdates

SharedNext ==
    \/ \E i \in 1..MaxTasks : SharedStart(i)
    \/ \E i \in 1..MaxTasks : SharedThrottle(i)
    \/ \E i \in 1..MaxTasks, d \in SharedDurations,
          e \in SharedErrors \cup {NoError} : SharedCallAtOnce(i, d, e)
    \/ \E i \in 1..MaxTasks, d \in SharedDurations,
          e \in SharedErrors \cup {NoError} : SharedWakeAndCall(i, d, e)
    \/ \E i \in 1..MaxTasks : SharedWakeAndRetry(i)

SharedSpec == SharedInit /\ [][SharedNext]_vars

----------------------------------------------------------------------------
(* create_embeddings_batch and _process_batch for lists of hundreds of      *)
(* texts, cache disabled: a group is the number of its texts, and the       *)
(* machine of lines 150-158 and 213-308 runs on these numbers.  Two         *)
(* successes add 100 to the batch size, so only a configured size above 200 *)
(* can still be below its old value when the second group is sent.          *)

MaxBulk == 404      \* length of the longest input list

BulkSizes == {MaxBulk \div 2}

BulkLengths == {1, MIN_BATCH_SIZE + 1, MaxBulk}

\* _create_batches on the number of texts
RECURSIVE Partition(_, _)
Partition(n, batch_size) ==
    IF n = 0 THEN <<>>
    ELSE <<Min(n, batch_size)>> \o Partition(n - Min(n, batch_size), batch_size)

\* lines 215-219
BulkFrame(n) == [n |-> n, attempt |-> 0, pend |-> <<>>]

\* a finished frame returns to the frame that called it
RECURSIVE BulkReturn(_)
BulkReturn(stk) ==
    IF stk = <<>> THEN <<>>
    ELSE IF Head(stk).pend # <<>>
    THEN <<BulkFrame(Head(Head(stk).pend)),
           [Head(stk) EXCEPT !.pend = Tail(@)]>> \o Tail(stk)
    ELSE BulkReturn(Tail(stk))

BulkCall(size) ==
    [pc |-> "idle", size |-> size, groups |-> <<>>, stack |-> <<>>,
     calls |-> 0, remote |-> 0,
     sent |-> [kind |-> "none", n |-> 0, size_before |-> 0, then |-> "none"]]

Bulking ==
    UNCHANGED <<service, cache_max_size, op, tasks, ck, fp, doc, dq, em,
                applied>>

BulkAttempting ==
    /\ bk.pc = "attempt"
    /\ Head(bk.stack).attempt < max_retries
    /\ bk.remote < MaxRemote

BulkSent(kind, then) ==
    [kind |-> kind, n |-> Head(bk.stack).n, size_before |-> bk.size,
     then |-> then]

\* lines 150-158 for n uncached texts
bulk_create_embeddings_batch(n) ==
    /\ bk.pc = "idle"
    /\ bk.calls < MaxCalls
    /\ LET bs == Partition(n, bk.size)
       IN  bk' = [bk EXCEPT !.pc = "attempt", !.calls = @ + 1,
                            !.stack = <<BulkFrame(Head(bs))>>,
                            !.groups = Tail(bs)]
    /\ Bulking

\* lines 227-263
BulkSuccess ==
    /\ BulkAttempting
    /\ LET stk == BulkReturn(Tail(bk.stack))
           went == [bk EXCEPT !.size = OnSuccess(@), !.remote = @ + 1,
                              !.sent = BulkSent("ok", "return")]
       IN  bk' = IF stk # <<>> THEN [went EXCEPT !.stack = stk]
                 ELSE IF bk.groups # <<>>
                 THEN [went EXCEPT !.stack = <<BulkFrame(Head(bk.groups))>>,
                                   !.groups = Tail(@)]
                 ELSE [went EXCEPT !.stack = <<>>, !.pc = "idle"]
    /\ Bulking

\* lines 265-285
BulkSplit(e) ==
    /\ BulkAttempting
    /\ ShouldSplit(e, Head(bk.stack).n, bk.size)
    /\ LET size == new_size(bk.size)
           sub_batches == Partition(Head(bk.stack).n, size)
       IN  bk' = [bk EXCEPT
                     !.size = size, !.remote = @ + 1,
                     !.sent = BulkSent("fail", "split"),
                     !.stack = <<BulkFrame(Head(sub_batches)),
                                 [Head(bk.stack) EXCEPT
                                     !.pend = Tail(sub_batches)]>>
                               \o Tail(bk.stack)]
    /\ Bulking

\* lines 287-305
BulkBackoff(e) ==
    /\ BulkAttempting
    /\ ~ShouldSplit(e, Head(bk.stack).n, bk.size)
    /\ CanBackoff(e, Head(bk.stack).attempt)
    /\ bk' = [bk EXCEPT !.remote = @ + 1,
                        !.sent = BulkSent("fail", "backoff"),
                        !.stack[1].attempt = @ + 1]
    /\ Bulking

\* lines 307-308
BulkRaise(e) ==
    /\ BulkAttempting
    /\ ~ShouldSplit(e, Head(bk.stack).n, bk.size)
    /\ ~CanBackoff(e, Head(bk.stack).attempt)
    /\ bk' = [bk EXCEPT !.remote = @ + 1, !.sent = BulkSent("fail", "raise"),
                        !.stack = <<>>, !.groups = <<>>, !.pc = "idle"]
    /\ Bulking

BulkInit ==
    /\ Constructed(BulkSizes, {FALSE})
    /\ cache_max_size = max_size
    /\ op = NoOp
    /\ tasks = NoTasks
    /\ ck = NoChunking
    /\ fp = NoFingerprints
    /\ doc = NoDocument
    /\ dq = NoQueries
    /\ em = NoEnrichment
    /\ bk = BulkCall(effective_batch_size)
    /\ applied = NoUpdates

BulkNext ==
    \/ \E n \in BulkLengths : bulk_create_embeddings_batch(n)
    \/ BulkSuccess
    \/ \E e \in Errors : BulkSplit(e)
    \/ \E e \in Errors : BulkBackoff(e)
    \/ \E e \in Errors : BulkRaise(e)

BulkSpec == BulkInit /\ [][BulkNext]_vars

----------------------------------------------------------------------------
(* lookup_citation and enrich_metadata of core/citation.py, lines 206-232.  *)
(* A dict is the sequence of its <<key, value>> pairs in insertion order.   *)
(* A pattern such as sommerville.*chapter is the sequence of the literals   *)
(* it asks for, in that order and with anything between them; a literal is  *)
(* one character, and file names are lower-case, so (?i) folds nothing.     *)

None == "<None>"

CITATION_REGISTRY ==
    << << <<"pattern", <<"a", "b">> >>, <<"author", "Sommerville">>,
          <<"year", "2015">>, <<"title", "Software Engineering">> >>,
       << <<"pattern", <<"a">> >>, <<"author", "Meyer">>,
          <<"year", "2014">>, <<"publisher", "Springer">> >>,
       << <<"pattern", <<"c">> >>, <<"author", "Dingsoyr">>,
          <<"journal", "JSS">> >> >>

FileNames ==
    {<<>>, <<"d">>, <<"c">>, <<"b", "a">>, <<"d", "a", "d", "b">>}

\* the dicts a caller passes: author, year and pattern, each one missing,
\* None or set
MetadataArgs ==
    {a \o y \o p :
        a \in {<<>>, <<<<"author", None>>>>, <<<<"author", "">>>>,
               <<<<"author", "mine">>>>},
        y \in {<<>>, <<<<"year", None>>>>, <<<<"year", "1999">>>>},
        p \in {<<>>, <<<<"pattern", "kept">>>>}}

\* key in d
Has(d, key) == \E i \in 1..Len(d) : d[i][1] = key

\* d[key]
Get(d, key) == d[CHOOSE i \in 1..Len(d) : d[i][1] = key][2]

\* d[key] = value
Put(d, key, value) ==
    IF Has(d, key)
    THEN [i \in 1..Len(d) |-> IF d[i][1] = key THEN <<key, value>> ELSE d[i]]
    ELSE Append(d, <<key, value>>)

\* {k: v for k, v in d.items() if k != key}
RECURSIVE Without(_, _)
Without(d, key) ==
    IF d = <<>> THEN <<>>
    ELSE IF Head(d)[1] = key THEN Without(Tail(d), key)
    ELSE <<Head(d)>> \o Without(Tail(d), key)

\* re.search(pattern, filename)
RECURSIVE re_search(_, _)
re_search(pattern, filename) ==
    IF pattern = <<>> THEN TRUE
    ELSE IF filename = <<>> THEN FALSE
    ELSE IF Head(filename) = Head(pattern)
    THEN re_search(Tail(pattern), Tail(filename))
    ELSE re_search(pattern, Tail(filename))

\* the loop of lookup_citation from entry i on
RECURSIVE LookupFrom(_, _)
LookupFrom(i, filename) ==
    IF i > Len(CITATION_REGISTRY) THEN [found |-> FALSE, citation |-> <<>>]
    ELSE IF re_search(Get(CITATION_REGISTRY[i], "pattern"), filename)
    THEN [found |-> TRUE,
          citation |-> Without(CITATION_REGISTRY[i], "pattern")]
    ELSE LookupFrom(i + 1, filename)

lookup_citation(filename) == LookupFrom(1, filename)

\* a fill that overwrites what the caller set
Fill_always(metadata, key, value) == Put(metadata, key, value)

\* lines 229-230: one iteration of the loop of enrich_metadata
Fill(metadata, key, value) ==
    IF ~Has(metadata, key) \/ Get(metadata, key) = None
    THEN Put(metadata, key, value)
    ELSE metadata

EnrichCall(metadata, filename) ==
    [pc |-> "called", given |-> metadata, filename |-> filename,
     metadata |-> metadata, found |-> FALSE, items |-> <<>>]

Enriching ==
    UNCHANGED <<service, cache_max_size, op, tasks, ck, fp, doc, dq, bk,
                applied>>

\* lines 224-226
enrich_metadata_enter ==
    /\ em.pc = "called"
    /\ LET citation == lookup_citation(em.filename)
       IN  em' = [em EXCEPT !.found = citation.found,
                            !.items = citation.citation,
                            !.pc = IF citation.found /\ citation.citation # <<>>
                                   THEN "loop" ELSE "done"]
    /\ Enriching

\* lines 228-232
enrich_metadata_loop ==
    /\ em.pc = "loop"
    /\ em' = [em EXCEPT
                 !.metadata = Fill(@, Head(em.items)[1], Head(em.items)[2]),
                 !.items = Tail(@),
                 !.pc = IF Tail(em.items) = <<>> THEN "done" ELSE "loop"]
    /\ Enriching

EnrichInit ==
    /\ Constructed({MIN_BATCH_SIZE}, {FALSE})
    /\ cache_max_size = max_size
    /\ op = NoOp
    /\ tasks = NoTasks
    /\ ck = NoChunking
    /\ fp = NoFingerprints
    /\ doc = NoDocument
    /\ dq = NoQueries
    /\ em \in {EnrichCall(metadata, filename) :
                   metadata \in MetadataArgs, filename \in FileNames}
    /\ bk = NoBulk
    /\ applied = NoUpdates

EnrichNext == enrich_metadata_enter \/ enrich_metadata_loop

EnrichSpec == EnrichInit /\ [][EnrichNext]_vars

----------------------------------------------------------------------------
(* The claims. *)

RetryableMarkers ==
    {"429", "rate limit", "request too large", "maximum context",
     "context_length", "413"}

Retryable(e) == e.marks \cap RetryableMarkers # {}

RateLimited(e) == e.marks \cap {"429", "rate limit"} # {}

Returned == outcome.kind = "returned"

Raised == outcome.kind = "raised"

Failed == last_attempt.kind = "fail"

\* C1: a create_embeddings_batch that returns hands back one result per
\* input text, and result i carries the fingerprint of the preprocessed
\* texts[i], whatever was hit or missed, split or retried; the empty list
\* gives the empty list.
C1_OrderPreserved ==
    Returned =>
        /\ Len(outcome.refs) = Len(outcome.texts)
        /\ \A i \in 1..Len(outcome.refs) :
               heap[outcome.refs[i]].text_hash
                   = _hash_text(_preprocess_text(outcome.texts[i]))

\* a miss at index 1 and a hit at index 2, the miss having needed a retry
C1_Witness ==
    /\ Returned
    /\ outcome.cached = <<FALSE, TRUE>>
    /\ outcome.remote >= 2

\* C2: two consecutive remote calls of the service are at least
\* min_request_interval apart, whether the earlier one succeeded or failed.
C2_MinSpacing ==
    issued.before.kind # "none" =>
        issued.latest.time - issued.before.time >= min_request_interval

\* C3, as claimed: a retryable failure is raised to the caller only by the
\* fifth attempt of its group.
C3_RetryableRaisedOnlyWhenExhausted ==
    (Raised /\ Retryable(outcome.err)) =>
        last_attempt.attempt = max_retries - 1

\* C3, amended: a rate-limit failure (429, rate limit) is raised to the
\* caller only by the fifth attempt of its group; a retryable failure that
\* is no rate limit is raised by the attempt it happens in, and only for a
\* group of one text or at the minimum batch size.
C3_RateLimitRaisedOnlyWhenExhausted ==
    /\ (Raised /\ RateLimited(outcome.err)) =>
           last_attempt.attempt = max_retries - 1
    /\ (Raised /\ Retryable(outcome.err) /\ ~RateLimited(outcome.err)) =>
           \/ last_attempt.n = 1
           \/ last_attempt.size_before = MIN_BATCH_SIZE

C3_Witness ==
    /\ Raised
    /\ RateLimited(outcome.err)
    /\ last_attempt.attempt = max_retries - 1
    /\ last_attempt.n = 1

\* what C4 says of the size after a retryable failure
Shrunk ==
    IF last_attempt.size_before = MIN_BATCH_SIZE
    THEN effective_batch_size = MIN_BATCH_SIZE
    ELSE /\ effective_batch_size < last_attempt.size_before
         /\ effective_batch_size
                = Max(MIN_BATCH_SIZE, last_attempt.size_before \div 2)

\* C4, as claimed: after a remote call that fails with a retryable error the
\* batch size is strictly smaller, or still at the minimum, for every group
\* size >= 1.
C4_EveryRetryableFailureShrinks ==
    (Failed /\ Retryable(last_attempt.err)) => Shrunk

\* C4, amended: that holds for every group of two or more texts; after a
\* retryable failure of a group of one text the batch size is unchanged.
C4_RetryableFailureOfGroupShrinks ==
    /\ (Failed /\ Retryable(last_attempt.err) /\ last_attempt.n >= 2) =>
           Shrunk
    /\ (Failed /\ Retryable(last_attempt.err) /\ last_attempt.n = 1) =>
           effective_batch_size = last_attempt.size_before

C4_Witness ==
    /\ Failed
    /\ Retryable(last_attempt.err)
    /\ last_attempt.n >= 2
    /\ last_attempt.size_before > MIN_BATCH_SIZE
    /\ effective_batch_size < last_attempt.size_before

\* a 429 rate limit failure of a 2-item group above the minimum batch size
TwoItemsRateLimited ==
    /\ Failed
    /\ RateLimited(last_attempt.err)
    /\ last_attempt.n = 2
    /\ last_attempt.size_before > MIN_BATCH_SIZE

C6_HeldResultsKeepFlag == \A r \in held : ~heap[r].cached

\* C7: the effective batch size stays within
\* [MIN_BATCH_SIZE, MAX_BATCH_SIZE], whatever was configured.
C7_BatchSizeBounded ==
    /\ MIN_BATCH_SIZE <= effective_batch_size
    /\ effective_batch_size <= MAX_BATCH_SIZE

\* configured above the maximum, and a success at the maximum
C7_Witness ==
    /\ settings_batch_size > MAX_BATCH_SIZE
    /\ last_attempt.kind = "ok"
    /\ last_attempt.size_before = MAX_BATCH_SIZE
    /\ effective_batch_size = MAX_BATCH_SIZE

\* C8: a group that keeps failing with a rate limit, being one text or at
\* the minimum batch size, is attempted at most 5 times; a backoff wait
\* follows each of the first 4 failures, and the fifth failure is raised as
\* it is, with no further wait.
C8_FiveAttemptsFourWaits ==
    /\ \A i \in 1..Len(stack) : stack[i].attempt <= max_retries - 1
    /\ (Failed /\ last_attempt.then = "backoff") =>
           /\ last_attempt.attempt < max_retries - 1
           /\ now - last_attempt.time >= min_delay
           /\ Top.attempt = last_attempt.attempt + 1
    /\ (Failed /\ RateLimited(last_attempt.err)
               /\ last_attempt.then = "raise") =>
           /\ last_attempt.attempt = max_retries - 1
           /\ last_attempt.time - last_attempt.start_time
                  >= (max_retries - 1) * min_delay
           /\ Raised
           /\ outcome.err = last_attempt.err
           /\ now = last_attempt.time

C8_Witness ==
    /\ Failed
    /\ RateLimited(last_attempt.err)
    /\ last_attempt.then = "raise"
    /\ last_attempt.attempt = max_retries - 1
    /\ last_attempt.n > 1
    /\ last_attempt.size_before = MIN_BATCH_SIZE

\* C9: a failure with none of the retryable markers is raised by the attempt
\* it happens in: no wait, no further remote call for the group, the same
\* error, the batch size as before the attempt, no results for the call.
C9_NonRetryablePropagates ==
    (Failed /\ ~Retryable(last_attempt.err)) =>
        /\ last_attempt.then = "raise"
        /\ Raised
        /\ outcome.err = last_attempt.err
        /\ outcome.refs = <<>>
        /\ pc = "idle"
        /\ stack = <<>>
        /\ batches = <<>>
        /\ effective_batch_size = last_attempt.size_before
        /\ now = last_attempt.time

\* the failure comes after a successful remote call of the same invocation
C9_Witness ==
    /\ Failed
    /\ ~Retryable(last_attempt.err)
    /\ Raised
    /\ outcome.remote >= 2
    /\ issued.before.kind = "ok"

\* C10: with the cache enabled, create_embeddings_batch([t]) called twice
\* within the TTL gives cached = False and then cached = True, the same
\* vector both times, and no remote call the second time.
C10_SecondCallIsAHit ==
    ( /\ enable_cache
      /\ prev_outcome.kind = "returned"
      /\ Returned
      /\ Len(outcome.texts) = 1
      /\ prev_outcome.texts = outcome.texts
      /\ prev_outcome.cached = <<FALSE>>
      /\ outcome.start - prev_outcome.end < ttl ) =>
        /\ outcome.cached = <<TRUE>>
        /\ outcome.embedding = prev_outcome.embedding
        /\ outcome.remote = 0

C10_Witness ==
    /\ enable_cache
    /\ prev_outcome.kind = "returned"
    /\ Returned
    /\ Len(outcome.texts) = 1
    /\ prev_outcome.texts = outcome.texts
    /\ prev_outcome.cached = <<FALSE>>
    /\ outcome.start - prev_outcome.end < ttl
    /\ outcome.cached = <<TRUE>>
    /\ outcome.remote = 0

Keys(c) == {c[i].key : i \in 1..Len(c)}

Entries(c) == {c[i] : i \in 1..Len(c)}

\* C11: get(key) returns the entry iff it is stored and younger than the TTL,
\* counted from its insertion; a hit leaves the stored entry and its
\* timestamp as they were, so earlier hits do not extend its life; a get of
\* an entry aged TTL or more returns None and removes the entry.
C11_ExpiryFromInsertion ==
    op.kind = "get" =>
        LET i == IndexOf(op.pre, op.key)
        IN  /\ op.hit <=> (i # 0 /\ op.time - op.pre[i].ts < ttl)
            /\ op.hit => (op.result = op.pre[i].result /\ cache = op.pre)
            /\ (i # 0 /\ op.time - op.pre[i].ts >= ttl) =>
                   /\ IndexOf(cache, op.key) = 0
                   /\ cache = Remove(op.pre, i)
            /\ i = 0 => cache = op.pre

\* a get that hit, and after it a get of the same key that found it expired
C11_Witness ==
    /\ op.kind = "get"
    /\ ~op.hit
    /\ IndexOf(op.pre, op.key) # 0
    /\ op.prev.kind = "get"
    /\ op.prev.key = op.key
    /\ op.prev.hit

\* C12: a cache constructed with max_size >= 1 never holds more than
\* max_size entries, whatever get, set and clear were called; after clear it
\* holds none.
C12_SizeBounded ==
    /\ Len(cache) <= cache_max_size
    /\ op.kind = "clear" => Len(cache) = 0

\* a set on a full cache of two
C12_Witness ==
    /\ op.kind = "set"
    /\ cache_max_size = 2
    /\ Len(op.pre) = cache_max_size
    /\ Len(cache) = cache_max_size

\* C13: a set on a cache holding max_size entries removes one entry, one of
\* oldest insertion timestamp, keeps every other entry as it was, and stores
\* the new result under the key at the time of the call, so that a get of
\* the key returns it.
C13_EvictsOldestInserted ==
    (op.kind = "set" /\ Len(op.pre) >= cache_max_size) =>
        /\ \E i \in 1..Len(op.pre) :
               /\ \A j \in 1..Len(op.pre) : op.pre[j].ts >= op.pre[i].ts
               /\ Keys(cache) = Keys(Remove(op.pre, i)) \cup {op.key}
               /\ \A e \in Entries(Remove(op.pre, i)) :
                      e.key # op.key => e \in Entries(cache)
        /\ Cardinality(Keys(cache)) = Len(cache)
        /\ [key |-> op.key, result |-> op.result, ts |-> op.time]
               \in Entries(cache)
        /\ EmbeddingCache_get(cache, heap, op.key, op.time).hit
        /\ EmbeddingCache_get(cache, heap, op.key, op.time).result = op.result

\* the entry evicted is the one that was read last
C13_Witness ==
    /\ op.kind = "set"
    /\ cache_max_size = 2
    /\ Len(op.pre) >= cache_max_size
    /\ op.prev.kind = "get"
    /\ op.prev.hit
    /\ op.prev.key # op.key
    /\ op.prev.key \notin Keys(cache)
    /\ \E i, j \in 1..Len(op.pre) : op.pre[i].ts < op.pre[j].ts

\* C14: with several create_embeddings_batch coroutines on one service, a
\* remote call is issued no sooner than min_request_interval after the
\* call before it; stated for a call before it that succeeded, so that the
\* timestamp of line 232 was written.
C14_NoBypass ==
    issued.before.kind = "ok" =>
        issued.latest.time - issued.before.time >= min_request_interval

\* the token indices the windows of ws leave out
Uncovered(ws, n) ==
    {k \in 0..(n - 1) : \A i \in 1..Len(ws) : ~(ws[i][1] <= k /\ k < ws[i][2])}

\* C15: chunk_text returns, for every text, every chunk_size >= 1 and every
\* overlap >= 0, those at or above chunk_size included; the windows of the
\* chunks it returns start at increasing indices and leave no token index
\* of the text out; chunk i is the decoding of window i.
C15_TerminatesAndCovers ==
    /\ <>(ck.pc = "done")
    /\ [](ck.pc = "done" =>
            /\ Uncovered(ck.windows, Len(encode(ck.text))) = {}
            /\ \A i \in 1..(Len(ck.windows) - 1) :
                   ck.windows[i][1] < ck.windows[i + 1][1]
            /\ Len(ck.chunks) = Len(ck.windows)
            /\ \A i \in 1..Len(ck.windows) :
                   ck.chunks[i] = decode(Slice(encode(ck.text),
                                               ck.windows[i][1],
                                               ck.windows[i][2])))

\* an overlap above the chunk size, and a text of several windows
C15_Witness ==
    /\ ck.pc = "done"
    /\ ck.overlap > ck.chunk_size
    /\ ck.overlap_arg = <<ck.overlap>>
    /\ Len(ck.windows) >= 4

\* the windows of n tokens for a chunk size and an overlap, from start on
RECURSIVE Windows(_, _, _, _)
Windows(n, size, overlap, start) ==
    LET end == Min(start + size, n)
    IN  IF end >= n THEN <<<<start, end>>>>
        ELSE <<<<start, end>>>>
             \o Windows(n, size, overlap, Max(start + 1, end - overlap))

\* C16: when the caller gives chunk_size >= 1 and overlap >= 0, overlap = 0
\* included, and the text has more tokens than chunk_size, the windows are
\* those of the caller's chunk_size and overlap.
C16_CallerValuesUsed ==
    ( /\ ck.pc = "done"
      /\ ck.chunk_size_arg # <<>>
      /\ ck.overlap_arg # <<>>
      /\ Len(encode(ck.text)) > ck.chunk_size_arg[1] ) =>
        ck.windows = Windows(Len(encode(ck.text)), ck.chunk_size_arg[1],
                             ck.overlap_arg[1], 0)

\* the remote calls that succeeded so far: each one stamps its results
Successes == Cardinality({heap[i].embedding[2] : i \in 1..Len(heap)})

\* C17: a successful remote call leaves the batch size at
\* min(MAX_BATCH_SIZE, size + 50), above what it was or at the maximum; as
\* long as no remote call has failed, k successes leave it at
\* min(MAX_BATCH_SIZE, initial size + 50 k), which is 650 after three
\* successes from a configured 500.
C17_AdditiveIncrease ==
    /\ last_attempt.kind = "ok" =>
           /\ effective_batch_size
                  = Min(MAX_BATCH_SIZE,
                        last_attempt.size_before + AIMD_ADDITIVE_INCREASE)
           /\ \/ effective_batch_size > last_attempt.size_before
              \/ effective_batch_size = MAX_BATCH_SIZE
    /\ remote = Successes =>
           effective_batch_size
               = Min(MAX_BATCH_SIZE,
                     Max(MIN_BATCH_SIZE, Min(MAX_BATCH_SIZE, settings_batch_size))
                         + AIMD_ADDITIVE_INCREASE * Successes)
    /\ (settings_batch_size = 500 /\ remote = 3 /\ Successes = 3) =>
           effective_batch_size = 650

C17_Witness ==
    /\ settings_batch_size = 500
    /\ remote = 3
    /\ Successes = 3
    /\ last_attempt.kind = "ok"
    /\ effective_batch_size = 650

\* C18: one text fingerprinted under two different models has two different
\* fingerprints, and the result cached under the first model is not
\* returned by the lookup under the second; under one model the two
\* fingerprints are the same and the lookup is a hit.
C18_ModelIsolation ==
    fp.pc = "done" =>
        /\ fp.model_1 # fp.model_2 => (fp.hash_1 # fp.hash_2 /\ ~fp.hit)
        /\ fp.model_1 = fp.model_2 => (fp.hash_1 = fp.hash_2 /\ fp.hit)

\* a text with the separator in it, under models with the separator in them
C18_Witness ==
    /\ fp.pc = "done"
    /\ fp.text = <<"a", ":">>
    /\ fp.model_1 = <<"m">>
    /\ fp.model_2 = <<"m", ":">>
    /\ ~fp.hit

\* the result r is the embedding of the text
EmbeddingOf(r, text) ==
    heap[r].text_hash = _hash_text(_preprocess_text(text))

\* C19: when chunk_text gave more than one chunk, embed_document_with_chunks
\* returns one result per chunk, in chunk order, and the first of them as
\* the primary result; when it gave one chunk or none, it returns the
\* embedding of the whole content and an empty list.
C19_PrimaryAndChunks ==
    (doc.pc = "called" /\ Returned) =>
        LET ret == DocReturn(doc.chunks, outcome.refs)
        IN  IF Len(doc.chunks) > 1
            THEN /\ Len(ret.chunk_embeddings) = Len(doc.chunks)
                 /\ \A i \in 1..Len(doc.chunks) :
                        EmbeddingOf(ret.chunk_embeddings[i], doc.chunks[i])
                 /\ ret.main_embedding = ret.chunk_embeddings[1]
                 /\ EmbeddingOf(ret.main_embedding, doc.chunks[1])
            ELSE /\ ret.chunk_embeddings = <<>>
                 /\ EmbeddingOf(ret.main_embedding, doc.content)

\* a document of three chunks or more, embedded after a split
C19_Witness ==
    /\ doc.pc = "called"
    /\ Returned
    /\ Len(doc.chunks) >= 3
    /\ outcome.remote >= 2
    /\ prev_outcome.kind = "returned"
    /\ Len(prev_outcome.refs) = 1

\* C20: for a document longer than window_size and a step_size within
\* 1..window_size, every character of the stripped document that is no
\* blank lies in the span of a returned query, the first query starts where
\* the document starts and the last one ends where it ends.
C20_QueriesExhaustive ==
    ( /\ dq.pc = "done"
      /\ Len(dq.text) > dq.window_size
      /\ 1 <= dq.step_size_arg
      /\ dq.step_size_arg <= dq.window_size ) =>
        /\ \A k \in 0..(Len(dq.text) - 1) :
               dq.text[k + 1] # SP =>
                   \E i \in 1..Len(dq.spans) :
                       dq.spans[i][1] <= k /\ k < dq.spans[i][2]
        /\ dq.queries # <<>>
        /\ dq.spans[1][1] = 0
        /\ dq.spans[Len(dq.spans)][2] = Len(dq.text)

\* the first entry of the registry whose pattern is found in filename, or 0
FirstMatch(filename) ==
    IF \E i \in 1..Len(CITATION_REGISTRY) :
           re_search(Get(CITATION_REGISTRY[i], "pattern"), filename)
    THEN CHOOSE i \in 1..Len(CITATION_REGISTRY) :
             /\ re_search(Get(CITATION_REGISTRY[i], "pattern"), filename)
             /\ \A j \in 1..(i - 1) :
                    ~re_search(Get(CITATION_REGISTRY[j], "pattern"), filename)
    ELSE 0

KeysOf(d) == {d[i][1] : i \in 1..Len(d)}

\* C21: enrich_metadata leaves every key the caller set to a value other
\* than None as it was; when the filename matches, every key of the first
\* matching entry that the caller left out or set to None gets that entry's
\* value, the key "pattern" is never added and no other key appears; when
\* nothing matches, the metadata come back as they were given.
C21_EnrichFillsOnlyGaps ==
    em.pc = "done" =>
        LET first == FirstMatch(em.filename)
            entry == IF first = 0 THEN <<>> ELSE CITATION_REGISTRY[first]
            fields == KeysOf(entry) \ {"pattern"}
        IN  /\ \A k \in KeysOf(em.given) :
                   Get(em.given, k) # None =>
                       /\ Has(em.metadata, k)
                       /\ Get(em.metadata, k) = Get(em.given, k)
            /\ \A k \in fields :
                   (~Has(em.given, k) \/ Get(em.given, k) = None) =>
                       /\ Has(em.metadata, k)
                       /\ Get(em.metadata, k) = Get(entry, k)
            /\ KeysOf(em.metadata) = KeysOf(em.given) \cup fields
            /\ first = 0 => em.metadata = em.given

\* a file name two entries match, an author the caller set, a year the
\* caller set to None and a title the caller left out
C21_Witness ==
    /\ em.pc = "done"
    /\ em.filename = <<"d", "a", "d", "b">>
    /\ em.given = <<<<"author", "mine">>, <<"year", None>>>>
    /\ em.metadata = <<<<"author", "mine">>, <<"year", "2015">>,
                       <<"title", "Software Engineering">>>>

\* C22: every remote call carries at most as many texts as the effective
\* batch size is when the call is issued, the groups that remain of a
\* create_embeddings_batch and the sub-batches that remain of a split after
\* a failure lowered the size included.
C22_CallWithinEffectiveSize ==
    /\ last_attempt.kind # "none" =>
           last_attempt.n <= last_attempt.size_before
    /\ (bk.pc # "none" /\ bk.sent.kind # "none") =>
           bk.sent.n <= bk.sent.size_before

\* the objects the remote calls of the latest invocation created
FreshObjects ==
    {i \in 1..Len(heap) : heap[i].embedding[2] > remote - outcome.remote}

\* C23: when create_embeddings_batch raises after earlier groups of the
\* same call succeeded, the results of those groups are in the cache, so
\* that repeating the call finds them there.
C23_EarlierGroupsCached ==
    (Raised /\ enable_cache) =>
        \A i \in FreshObjects : heap[i].text_hash \in Keys(cache)

\* C24: after a remote call for a group failed with a retryable error, the
\* next remote call with texts of that group is for fewer texts than the
\* failed one, or comes after a backoff wait of at least one second; here
\* the failure that splits is followed at once by the call for the first
\* sub-batch.
C24_NeverSameGroupAtOnce ==
    (pc = "attempt" /\ Failed /\ Retryable(last_attempt.err)) =>
        \/ Len(Top.texts) < last_attempt.n
        \/ Throttle(now) - last_attempt.time >= min_delay

RECURSIVE TextsIn(_)
TextsIn(groups) ==
    IF groups = <<>> THEN 0
    ELSE Len(Head(groups)) + TextsIn(Tail(groups))

RECURSIVE Waiting(_)
Waiting(stk) ==
    IF stk = <<>> THEN 0
    ELSE TextsIn(Head(stk).pend) + Waiting(Tail(stk))

\* the texts of the running invocation no remote call has embedded yet
Unembedded == Len(Top.texts) + Waiting(stack) + TextsIn(batches)

\* what every step of _process_batch lowers: the unembedded texts, then the
\* batch size, then the attempts the top frame has left
Rank ==
    IF pc = "attempt"
    THEN (Unembedded * (MAX_BATCH_SIZE + 1) + effective_batch_size)
             * (max_retries + 1)
         + (max_retries - Top.attempt)
    ELSE 0

\* C25: _process_batch terminates whatever the remote calls answer: while
\* it runs, the group in hand is not empty and has an attempt left, so the
\* next remote call is issued, and every answer either ends the invocation
\* or lowers Rank: a success embeds texts, a split lowers the
\* batch size, which starts no higher than 2048 and never goes below 8, and
\* a backoff uses up one of the 5 attempts of the group.
C25_SplitsAndRetriesEnd ==
    /\ [](pc = "attempt" =>
              /\ Len(Top.texts) >= 1
              /\ Top.attempt < max_retries)
    /\ [][pc = "attempt" => (pc' = "idle" \/ (Rank' < Rank /\ Rank' > 0))]_vars

\* a group of 2 texts failed at size 16, its sub-batch failed twice more at
\* size 8 with a backoff each, and the fourth failure was raised
C25_Witness ==
    /\ Raised
    /\ settings_batch_size = 2 * MIN_BATCH_SIZE
    /\ outcome.remote = 4
    /\ last_attempt.attempt = 2
    /\ last_attempt.size_before = MIN_BATCH_SIZE
    /\ last_attempt.n = 2

\* the batch size after the updates of log, applied in their order to size
RECURSIVE Replay(_, _)
Replay(log, size) ==
    IF log = <<>> THEN size
    ELSE Replay(Tail(log),
                IF Head(log) = "increase"
                THEN Min(MAX_BATCH_SIZE, size + AIMD_ADDITIVE_INCREASE)
                ELSE Max(MIN_BATCH_SIZE, size \div 2))

\* the coroutine that ended last
Latest(i) ==
    /\ tasks[i].pc \in {"done", "raised"}
    /\ \A j \in 1..Len(tasks) :
           tasks[j].pc \in {"done", "raised"} =>
               tasks[j].done_at <= tasks[i].done_at

\* C26: with coroutines that interleave at the throttle's and the backoff's
\* sleep, the batch size is what its updates give when applied one after
\* another in the order they happened, so none was lost, and it stays
\* between 8 and 2048; the cache holds no more than max_size entries and no
\* key twice, and the key the latest coroutine stored last is in it.
C26_UpdatesAtomic ==
    tasks # NoTasks =>
        /\ effective_batch_size
               = Replay(applied, InitialBatchSize(settings_batch_size))
        /\ MIN_BATCH_SIZE <= effective_batch_size
        /\ effective_batch_size <= MAX_BATCH_SIZE
        /\ Len(cache) <= cache_max_size
        /\ Cardinality(Keys(cache)) = Len(cache)
        /\ \A i \in 1..Len(tasks) :
               (Latest(i) /\ tasks[i].pc = "done" /\ tasks[i].got # <<>>) =>
                   tasks[i].last_key \in Keys(cache)

\* two coroutines with the same long list ran interleaved: neither found
\* the other's results in the cache, a failure of one lowered the size and
\* the successes of both raised it, and both filled the cache
C26_Witness ==
    /\ tasks # NoTasks
    /\ \A i \in 1..Len(tasks) :
           /\ tasks[i].pc = "done"
           /\ tasks[i].texts = LongInput
           /\ Len(tasks[i].got) = Len(LongInput)
    /\ \E k \in 1..Len(applied) : applied[k] = "decrease"
    /\ Len(cache) = cache_max_size

\* the fingerprints of the input texts the cache did not answer
UncachedFingerprints ==
    {heap[outcome.refs[i]].text_hash :
         i \in {j \in 1..Len(outcome.refs) : ~outcome.cached[j]}}

\* C27: a create_embeddings_batch with the cache enabled, none of whose
\* remote calls failed, has sent as many texts as its input has distinct
\* fingerprints the cache did not answer: texts whose preprocessed form is
\* the same are sent once.
C27_DuplicatesSentOnce ==
    (Returned /\ enable_cache
              /\ Cardinality({heap[i].embedding[2] : i \in FreshObjects})
                     = outcome.remote) =>
        Cardinality(FreshObjects) = Cardinality(UncachedFingerprints)

\* C28: a set for a key that is already stored removes no entry stored
\* under another key.
C28_ResetEvictsNothing ==
    (op.kind = "set" /\ op.key \in Keys(op.pre)) =>
        Keys(op.pre) \subseteq Keys(cache)

Expired(e, t) == t - e.ts >= ttl

\* C29: with a clock that never goes back, a set on a cache holding
\* max_size entries, one of them expired, removes no entry that is not
\* expired: the entry it evicts is an expired one.
C29_ExpiredEvictedFirst ==
    (op.kind = "set" /\ Len(op.pre) >= cache_max_size
                     /\ \E e \in Entries(op.pre) : Expired(e, op.time)) =>
        /\ \A e \in Entries(op.pre) :
               ~Expired(e, op.time) => e.key \in Keys(cache)
        /\ \E e \in Entries(op.pre) :
               /\ Expired(e, op.time)
               /\ e \notin Entries(cache)

\* a full cache of an expired and a live entry, and a set of a third key
C29_Witness ==
    /\ op.kind = "set"
    /\ cache_max_size = 2
    /\ Len(op.pre) = 2
    /\ op.key \notin Keys(op.pre)
    /\ \E e \in Entries(op.pre) : Expired(e, op.time)
    /\ \E e \in Entries(op.pre) : ~Expired(e, op.time) /\ e \in Entries(cache)

\* the error of the latest remote call sent the group into a backoff wait
BackedOff == Failed /\ last_attempt.then = "backoff"

TokensPerMinute(e) == e.marks \cap {"tokens per min", "tpm"} # {}

\* how long the wait after the latest remote call was
Waited == now - last_attempt.time

\* C30, as claimed: the backoff wait after a rate limit failure whose
\* message names tokens per minute is 60 seconds, also when the message
\* states a time to try again in; and every backoff wait is at least 1
\* second.
C30_TpmWaitsFullMinute ==
    /\ (BackedOff /\ TokensPerMinute(last_attempt.err)) =>
           Waited = tpm_delay
    /\ BackedOff => Waited >= min_delay

\* C30, amended: the backoff wait after a rate limit failure whose message
\* names tokens per minute is 60 seconds when the message does not say
\* "try again in"; when it does, the wait is the stated milliseconds or
\* seconds, or 2 seconds when no number can be read, and at least 1 second;
\* and every backoff wait is at least 1 second.
C30_TpmWaitsFullMinuteUnlessTold ==
    /\ (BackedOff /\ TokensPerMinute(last_attempt.err)
                  /\ "try again in" \notin last_attempt.err.marks) =>
           Waited = tpm_delay
    /\ (BackedOff /\ "try again in" \in last_attempt.err.marks) =>
           Waited = Max(min_delay,
                        IF last_attempt.err.again_ms >= 0
                        THEN last_attempt.err.again_ms
                        ELSE IF last_attempt.err.again_s >= 0
                        THEN 1000 * last_attempt.err.again_s
                        ELSE base_delay)
    /\ BackedOff => Waited >= min_delay

\* a tokens per minute message that says to try again in 7 s, and a wait of
\* 7 s
C30_Witness ==
    /\ BackedOff
    /\ last_attempt.err = ErrTpmAgainS
    /\ Waited = 7000

====
